---- MODULE Spec2Model ----
(***************************************************************************)
(* rumydata: the streaming File check (rumydata/table.py), the Layout row  *)
(* and header checks, the Field cell and column checks and the generic     *)
(* Subject check (_base.py).  A str is modelled as the sequence of its     *)
(* characters (<<>> is ''), a row as a sequence of such strings, a dict as *)
(* the sequence of its items in insertion order, and an exception object   *)
(* of rumydata.exception as a node [kind, msg, errors].                    *)
(***************************************************************************)
EXTENDS Integers, Sequences, FiniteSets, TLC

(* ------------------------------ bounds --------------------------------- *)
\* number of rows in a row source
MaxRows == 3
\* number of check calls made on one File object
MaxRuns == 2
\* number of rules a caller gives to a field
MaxRules == 2
\* number of values a caller checks against one Field or Layout
MaxCalls == 2

(* ------------------------------- modes --------------------------------- *)
\* what rumydata.exception.debug() returns
VARIABLE debug

(* ------------------------------ strings -------------------------------- *)
EmptyStr == <<>>
Str_a == <<"a">>
\* the values uuid4().hex[:5] can take, cut down to two
AnonIds == {<<"0">>, <<"1">>}

Range(s) == {s[i] : i \in DOMAIN s}

StartsWith(s, p) ==
    /\ Len(s) >= Len(p)
    /\ SubSeq(s, 1, Len(p)) = p

Contains(s, p) ==
    \E i \in 0..(Len(s) - Len(p)) : SubSeq(s, i + 1, i + Len(p)) = p

RECURSIVE Strip(_)
Strip(s) ==
    IF s = <<>> THEN s
    ELSE IF Head(s) = " " THEN Strip(Tail(s))
    ELSE IF s[Len(s)] = " " THEN Strip(SubSeq(s, 1, Len(s) - 1))
    ELSE s

\* index of the first TRUE of a list of booleans, -1 for list.index's ValueError
IndexTrue(bs) ==
    IF \E i \in DOMAIN bs : bs[i]
    THEN (CHOOSE i \in DOMAIN bs : bs[i] /\ \A j \in 1..(i - 1) : ~bs[j]) - 1
    ELSE -1

IsSorted(ixs) == \A i \in 1..(Len(ixs) - 1) : ixs[i] <= ixs[i + 1]


(* ---------------------------- error nodes ------------------------------ *)
None == [kind |-> "None", msg |-> <<>>, errors |-> <<>>]

UrNotMyDataError(kind, msg, errors) ==
    [kind |-> kind, msg |-> msg, errors |-> errors]

FileError(file, errors) == UrNotMyDataError("File", <<file>>, errors)

RowError(index, errors) ==
    UrNotMyDataError("Row", <<ToString(index + 1)>>, errors)

CellError(index, errors, rix, name) ==
    UrNotMyDataError("Cell",
        (IF rix # 0 THEN <<ToString(rix + 1), ",">> ELSE <<>>)
            \o <<ToString(index + 1)>>
            \o (IF name # <<>> THEN <<" (">> \o name \o <<")">> ELSE <<>>),
        errors)

ColumnError(index, errors, name) ==
    UrNotMyDataError("Column",
        <<ToString(index + 1)>>
            \o (IF name # <<>> THEN <<" (">> \o name \o <<")">> ELSE <<>>),
        errors)

\* the lines of UrNotMyDataError.md: one <<depth, class name, message>> per node
RECURSIVE md(_, _)
RECURSIVE flatten_md(_, _)
md(node, depth) ==
    <<<<depth, node.kind, node.msg>>>> \o flatten_md(node.errors, depth)
flatten_md(errors, depth) ==
    IF errors = <<>> THEN <<>>
    ELSE md(Head(errors), depth + 1) \o flatten_md(Tail(errors), depth)

(* ------------------------------- rules --------------------------------- *)
\* a rule object: its class and the value given to its constructor
Rule(cls, arg) == [cls |-> cls, arg |-> arg]

CellRules == {"NotNull", "ExactChar", "MinChar", "MaxChar", "NumericGT",
              "CanBeInteger", "NoLeadingZero", "MaxDigit", "GreaterThanColumn"}
ColumnRules == {"Unique"}
RowRules == {"RowLengthLTE", "RowLengthGTE"}
HeaderRules == {"ColumnOrder", "NoExtra", "NoDuplicate", "NoMissing"}
FileRules == {"FileExists", "FileNameMatch"}

\* the Rule base class of each submodule of rumydata.rules
RuleType(r) ==
    CASE r.cls \in CellRules -> "cell"
      [] r.cls \in ColumnRules -> "column"
      [] r.cls \in RowRules -> "row"
      [] r.cls \in HeaderRules -> "header"
      [] r.cls \in FileRules -> "file"

explain(r) ==
    CASE r.cls = "NotNull" -> <<"cannot be empty/blank">>
      [] r.cls = "ExactChar" -> <<"must be exactly ", ToString(r.arg), " characters">>
      [] r.cls = "MinChar" -> <<"must be at least ", ToString(r.arg), " characters">>
      [] r.cls = "MaxChar" -> <<"must be no more than ", ToString(r.arg), " characters">>
      [] r.cls = "NumericGT" -> <<"greater than ", ToString(r.arg)>>
      [] r.cls = "CanBeInteger" -> <<"can be coerced into an integer value">>
      [] r.cls = "NoLeadingZero" -> <<"cannot have a leading zero digit">>
      [] r.cls = "MaxDigit" ->
            <<"must have no more than ", ToString(r.arg), " digit characters">>
      [] r.cls = "GreaterThanColumn" -> <<"must be greater than column '">> \o r.arg \o <<"'">>
      [] r.cls = "Unique" -> <<"values must be unique">>
      [] r.cls = "RowLengthLTE" ->
            <<"row length must be equal to ", ToString(r.arg), ", not greater">>
      [] r.cls = "RowLengthGTE" ->
            <<"row length must be equal to ", ToString(r.arg), ", not less">>
      [] r.cls = "ColumnOrder" -> <<"Header row must explicitly match order of definition">>
      [] r.cls = "NoExtra" -> <<"Header row must not have unexpected columns">>
      [] r.cls = "NoDuplicate" -> <<"Header row must not contain duplicate values">>
      [] r.cls = "NoMissing" -> <<"Header row must not be missing any expected columns">>
      [] r.cls = "FileExists" -> <<"files must exist">>
      [] r.cls = "FileNameMatch" ->
            <<"files name must match a pattern provided in the layout">>

exception_msg(r) == UrNotMyDataError(r.cls, explain(r), <<>>)

\* a failure whose message is str(e) of the exception raised
raised_msgStr(r, exc, text) == UrNotMyDataError(r.cls, text, <<>>)

\* a failure that carries str(e) whatever debug() returns
raised_msgLeak(r, exc, text) ==
    UrNotMyDataError(r.cls,
        <<"raised ", exc, " while checking if value ">> \o explain(r)
            \o <<" [DEBUG]: ">> \o text,
        <<>>)

(* the failure a Subject records when prepare or the evaluator raises exc, *)
(* text being str(e) of the exception raised                              *)
raised_msg(r, exc, text) ==
    UrNotMyDataError(r.cls,
        <<"raised ", exc, " while checking if value ">> \o explain(r)
            \o (IF debug THEN <<" [DEBUG]: ">> \o text ELSE <<>>),
        <<>>)

\* a cell value that is no str: Python's None
PyNone == <<"None">>

Digits == {"0", "1", "2", "3", "4", "5", "6", "7", "8", "9"}

\* float(x) returns for x: decided for strings of letters and digits
IsFloat(x) == x # <<>> /\ x # PyNone /\ \A i \in DOMAIN x : x[i] \in Digits

DigitValue(c) == CHOOSE n \in 0..9 : ToString(n) = c

\* float(x) for a string of digits
RECURSIVE FloatValue(_)
FloatValue(x) ==
    IF x = <<>> THEN 0
    ELSE 10 * FloatValue(SubSeq(x, 1, Len(x) - 1)) + DigitValue(x[Len(x)])

\* int(x) returns for x: decided for strings of letters and digits
IsInt(x) == x # <<>> /\ \A i \in DOMAIN x : x[i] \in Digits

\* re.sub(r'[^\d]', '', x)
OnlyDigits(x) == SelectSeq(x, LAMBDA c : c \in Digits)

\* the characters of the values, in the order of their code points
CodeOrder == <<" ", "0", "1", "2", "3", "4", "5", "6", "7", "8", "9", "a", "b", "c", "x">>

CharCode(c) == CHOOSE i \in DOMAIN CodeOrder : CodeOrder[i] = c

\* x > y for two str values: the order of the first characters that differ
RECURSIVE StrGT(_, _)
StrGT(x, y) ==
    IF x = <<>> THEN FALSE
    ELSE IF y = <<>> THEN TRUE
    ELSE IF Head(x) = Head(y) THEN StrGT(Tail(x), Tail(y))
    ELSE CharCode(Head(x)) > CharCode(Head(y))

\* data[1][compare_to]: the value the comparison dict holds for the name
Compared(comp, compare_to) ==
    comp[CHOOSE i \in DOMAIN comp : comp[i][1] = compare_to][2]

(* cell rules: data is [val, comp], the cell value and the dict of the     *)
(* sibling values the field compares to                                    *)
CellEvaluate(r, data) ==
    LET x == data.val IN
    CASE r.cls = "NotNull" -> x # EmptyStr
      [] r.cls = "ExactChar" -> Len(x) = r.arg
      [] r.cls = "MinChar" -> Len(x) >= r.arg
      [] r.cls = "MaxChar" -> Len(x) <= r.arg
      [] r.cls = "NumericGT" -> FloatValue(x) > r.arg
      [] r.cls = "CanBeInteger" -> IsInt(x)
      [] r.cls = "NoLeadingZero" ->
            OnlyDigits(x) = <<"0">> \/ (OnlyDigits(x) # <<>> /\ Head(OnlyDigits(x)) # "0")
      [] r.cls = "MaxDigit" -> Len(OnlyDigits(x)) <= r.arg
      [] r.cls = "GreaterThanColumn" -> StrGT(x, Compared(data.comp, r.arg))

\* float(x) raises ValueError
CellRaises(r, data) == r.cls = "NumericGT" /\ ~IsFloat(data.val)

\* a preparation that keeps the blanks
UniquePrepareAll(data) == data

\* Unique._prepare drops the blanks, the evaluator compares len(x) to len(set(x))
UniquePrepare(data) == SelectSeq(data, LAMBDA x : ~(x = EmptyStr))

ColumnEvaluate(r, data) ==
    LET x == UniquePrepare(data) IN Len(x) = Cardinality(Range(x))

RowLengthLTE(x, columns_length) == Len(x) <= columns_length

\* a lower bound that is only met by the exact length
RowLengthGTEExact(x, columns_length) == Len(x) = columns_length

RowLengthGTE(x, columns_length) == Len(x) >= columns_length

RowEvaluate(r, data) ==
    CASE r.cls = "RowLengthLTE" -> RowLengthLTE(data, r.arg)
      [] r.cls = "RowLengthGTE" -> RowLengthGTE(data, r.arg)

(* header rules: definition is the list of the keys of the dict the rule   *)
(* took from the Layout when it was constructed                            *)
MatchIndexes(x, definition, mode) ==
    [i \in DOMAIN x |->
        IndexTrue([j \in DOMAIN definition |->
            IF mode = "startswith" THEN StartsWith(x[i], definition[j])
            ELSE Contains(x[i], definition[j])])]

NoExtra(x, definition, mode) ==
    CASE mode = "exact" -> \A i \in DOMAIN x : x[i] \in Range(definition)
      [] mode = "startswith" ->
            \A i \in DOMAIN x : \E j \in DOMAIN definition : StartsWith(x[i], definition[j])
      [] mode = "contains" ->
            \A i \in DOMAIN x : \E j \in DOMAIN definition : Contains(x[i], definition[j])

NoMissing(x, definition, mode) ==
    CASE mode = "exact" -> \A j \in DOMAIN definition : definition[j] \in Range(x)
      [] mode = "startswith" ->
            \A j \in DOMAIN definition : \E i \in DOMAIN x : StartsWith(x[i], definition[j])
      [] mode = "contains" ->
            \A j \in DOMAIN definition : \E i \in DOMAIN x : Contains(x[i], definition[j])

NoDuplicate(x, definition, mode) ==
    IF mode = "exact" THEN Len(x) = Cardinality(Range(x))
    ELSE LET ixs == MatchIndexes(x, definition, mode)
         IN  Len(ixs) = Cardinality(Range(ixs))

\* an order rule that compares the raw strings in every mode
ColumnOrderRaw(x, definition, mode) == x = definition

\* an order rule that passes any arrangement of the expected names
ColumnOrderAnyOrder(x, definition, mode) ==
    IF mode = "exact" THEN Range(x) = Range(definition) /\ Len(x) = Len(definition)
    ELSE IsSorted(MatchIndexes(x, definition, mode))

ColumnOrder(x, definition, mode) ==
    IF mode = "exact" THEN x = definition
    ELSE IsSorted(MatchIndexes(x, definition, mode))

\* list.index(True) raises ValueError for a token that matches no name
HeaderRaises(r, x, definition, mode) ==
    /\ r.cls \in {"NoDuplicate", "ColumnOrder"}
    /\ mode # "exact"
    /\ \E i \in DOMAIN x : MatchIndexes(x, definition, mode)[i] = -1

HeaderEvaluate(r, x, definition, mode) ==
    CASE r.cls = "ColumnOrder" -> ColumnOrder(x, definition, mode)
      [] r.cls = "NoExtra" -> NoExtra(x, definition, mode)
      [] r.cls = "NoDuplicate" -> NoDuplicate(x, definition, mode)
      [] r.cls = "NoMissing" -> NoMissing(x, definition, mode)

\* file rules: data is the path, [exists, matches]
FileEvaluate(r, p) ==
    CASE r.cls = "FileExists" -> p.exists
      [] r.cls = "FileNameMatch" -> p.matches

(* the result of prepare and evaluate for one rule: "pass", "fail", or the *)
(* name of the exception raised; env is [definition, header_mode] for a    *)
(* header rule                                                             *)
Outcome(r, data, env) ==
    CASE RuleType(r) = "cell" ->
            IF CellRaises(r, data) THEN "ValueError"
            ELSE IF CellEvaluate(r, data) THEN "pass" ELSE "fail"
      [] RuleType(r) = "column" -> IF ColumnEvaluate(r, data) THEN "pass" ELSE "fail"
      [] RuleType(r) = "row" -> IF RowEvaluate(r, data) THEN "pass" ELSE "fail"
      [] RuleType(r) = "header" ->
            IF HeaderRaises(r, data, env.definition, env.header_mode) THEN "ValueError"
            ELSE IF HeaderEvaluate(r, data, env.definition, env.header_mode)
                 THEN "pass" ELSE "fail"
      [] RuleType(r) = "file" -> IF FileEvaluate(r, data) THEN "pass" ELSE "fail"

\* str(e) of the exception a rule raises for the data
ExcText(r, data) ==
    IF RuleType(r) = "cell"
    THEN <<"could not convert string to float: '">> \o data.val \o <<"'">>
    ELSE <<"True is not in list">>

\* a pre-processing step that never raises
PreProcessRaisesNever(rule_type, data, strip) == "none"

\* the exception Rule._pre_process raises for the data, "none" if it returns
PreProcessRaises(rule_type, data, strip) ==
    CASE rule_type = "cell" /\ data.val = PyNone -> "TypeError"
      [] rule_type = "column" /\ strip /\ (\E i \in DOMAIN data : data[i] = PyNone) ->
            "AttributeError"
      [] OTHER -> "none"

\* the failure returned when Rule._pre_process raises exc
PreProcessingError(exc, text) ==
    UrNotMyDataError("PreProcessing",
        <<"raised ", exc, " while preprocessing data">>
            \o (IF debug THEN <<" [DEBUG]: ">> \o text ELSE <<>>),
        <<>>)

\* Rule._pre_process of the cell and column submodules; the others return data
pre_process(rule_type, data, strip) ==
    CASE rule_type = "cell" /\ strip ->
            [val |-> Strip(data.val),
             comp |-> [i \in DOMAIN data.comp |-> <<data.comp[i][1], Strip(data.comp[i][2])>>]]
      [] rule_type = "column" /\ strip -> [i \in DOMAIN data |-> Strip(data[i])]
      [] OTHER -> data

\* the loop of _BaseSubject._check over self.rules
RECURSIVE CheckRules(_, _, _, _)
CheckRules(rules, data, rule_type, env) ==
    IF rules = <<>> THEN <<>>
    ELSE LET r == Head(rules)
             rest == CheckRules(Tail(rules), data, rule_type, env)
         IN  IF RuleType(r) # rule_type THEN rest
             ELSE LET o == Outcome(r, data, env)
                  IN  CASE o = "pass" -> rest
                        [] o = "fail" -> <<exception_msg(r)>> \o rest
                        [] OTHER -> <<raised_msg(r, o, ExcText(r, data))>> \o rest

BaseSubjectCheck(rules, data, rule_type, strip, env) ==
    LET raised == PreProcessRaises(rule_type, data, strip)
    IN  IF raised # "none"
        THEN <<PreProcessingError(raised, <<"'NoneType' object is not subscriptable">>)>>
        ELSE CheckRules(rules, pre_process(rule_type, data, strip), rule_type, env)

NoEnv == [definition |-> <<>>, header_mode |-> "exact"]

(* ------------------------------- fields -------------------------------- *)
NotNullRule == Rule("NotNull", 0)

\* Field.__init__: the caller's rules, then NotNull unless nullable
Field(nullable, rules) ==
    [type |-> "Field", nullable |-> nullable, strip |-> FALSE,
     rules |-> IF nullable THEN rules ELSE Append(rules, NotNullRule)]

Text(max_length, nullable, rules) ==
    LET f == Field(nullable, rules)
    IN  [f EXCEPT !.type = "Text", !.rules = Append(f.rules, Rule("MaxChar", max_length))]

\* Integer.__init__ without min_length
Integer(max_length, nullable, rules) ==
    LET f == Field(nullable, rules)
    IN  [f EXCEPT !.type = "Integer",
                  !.rules = f.rules \o <<Rule("CanBeInteger", 0), Rule("NoLeadingZero", 0),
                                          Rule("MaxDigit", max_length)>>]

Ignore == [type |-> "Ignore", nullable |-> TRUE, strip |-> FALSE, rules |-> <<>>]

\* the field of an anonymous column: '' passes, any other value fails
Empty == [type |-> "Empty", nullable |-> TRUE, strip |-> FALSE,
          rules |-> <<Rule("MaxChar", 0)>>]

has_rule_type(t, rule_type) == \E i \in DOMAIN t.rules : RuleType(t.rules[i]) = rule_type

\* a Field._check that runs the rules of a nullable field on an empty value
FieldCheckNoSkip(t, data, cix, rule_type, rix, name) ==
    LET e == BaseSubjectCheck(t.rules, data, rule_type, t.strip, NoEnv)
    IN  IF e = <<>> THEN None
        ELSE IF rule_type = "column" THEN ColumnError(cix, e, name)
        ELSE CellError(cix, e, rix, name)

\* Field._check; data is [val, comp] for a cell and the list of values for a column
FieldCheck(t, data, cix, rule_type, rix, name) ==
    IF t.type = "Ignore" THEN None
    ELSE LET empty == IF rule_type = "cell" THEN data.val = EmptyStr ELSE FALSE
         IN  IF t.nullable /\ rule_type = "cell" /\ empty THEN None
             ELSE LET e == BaseSubjectCheck(t.rules, data, rule_type, t.strip, NoEnv)
                  IN  IF e = <<>> THEN None
                      ELSE IF rule_type = "column" THEN ColumnError(cix, e, name)
                      ELSE CellError(cix, e, rix, name)

(* ------------------------------- Layout -------------------------------- *)
Keys(d) == [i \in DOMAIN d |-> d[i].name]

\* Layout.__init__; definition is the dict of fields, a sequence of [name, field]
NewLayout(definition, kw) ==
    [skip_header |-> kw.skip_header,
     empty_row_ok |-> kw.empty_row_ok,
     header_mode |-> kw.header_mode,
     empty_cols_ok |-> kw.empty_cols_ok,
     no_header |-> kw.no_header,
     layout |-> definition,
     definition |-> definition,
     rules |-> <<Rule("ColumnOrder", 0), Rule("NoExtra", 0), Rule("NoDuplicate", 0),
                 Rule("NoMissing", 0),
                 Rule("RowLengthLTE", Len(definition)),
                 Rule("RowLengthGTE", Len(definition))>>]

field_count(lay) == Len(lay.layout)

Min(a, b) == IF a <= b THEN a ELSE b

\* Field._comparison_columns and the comp dict Layout._check builds from it
ComparisonContext(lay, row, t) ==
    LET cmp == SelectSeq(t.rules, LAMBDA r : r.cls = "GreaterThanColumn")
    IN  [j \in DOMAIN cmp |->
            <<cmp[j].arg,
              row[CHOOSE p \in DOMAIN lay.layout : lay.layout[p].name = cmp[j].arg]>>]

\* the Cell checks of one row, in field order, without the cells that pass
RECURSIVE CellChecks(_, _, _, _)
CellChecks(lay, row, rix, cix) ==
    IF cix >= Min(Len(lay.layout), Len(row)) THEN <<>>
    ELSE LET item == lay.layout[cix + 1]
             ce == FieldCheck(item.field,
                              [val |-> row[cix + 1],
                               comp |-> ComparisonContext(lay, row, item.field)],
                              cix, "cell", rix, item.name)
             rest == CellChecks(lay, row, rix, cix + 1)
         IN  IF ce = None THEN rest ELSE <<ce>> \o rest

\* a Layout that accepts no row for being empty
EmptyRowNever(lay, row) == FALSE

\* empty_row_ok and all fields are either empty, or Ignore class
EmptyRow(lay, row) ==
    /\ lay.empty_row_ok
    /\ \A i \in 1..Min(Len(lay.layout), Len(row)) :
          (IF lay.layout[i].field.type = "Ignore" THEN EmptyStr ELSE row[i]) = EmptyStr

\* Layout._check
LayoutCheck(lay, row, rule_type, rix) ==
    IF rule_type = "header" /\ lay.skip_header THEN None
    ELSE LET e == BaseSubjectCheck(lay.rules, row, rule_type, FALSE,
                      [definition |-> Keys(lay.definition), header_mode |-> lay.header_mode])
         IN  IF e # <<>> THEN RowError(IF rix = 0 THEN -1 ELSE rix, e)
             ELSE IF rule_type # "row" THEN None
             ELSE IF EmptyRow(lay, row) THEN None
             ELSE LET ce == CellChecks(lay, row, rix, 0)
                  IN  IF ce # <<>> THEN RowError(rix, ce) ELSE None

(* -------------------- empty_cols_ok: the header remap ------------------ *)
EmptyPrefix == <<"e", "m", "p", "t", "y", "_">>

\* positions of the keys after the loop over the indexes of the empty header cells
RECURSIVE Bump(_, _, _)
Bump(pos, row, i) ==
    IF i >= Len(row) THEN pos
    ELSE IF row[i + 1] = EmptyStr
         THEN Bump([k \in DOMAIN pos |-> IF pos[k] >= i THEN pos[k] + 1 ELSE pos[k]], row, i + 1)
         ELSE Bump(pos, row, i + 1)

\* the list bumps before the trailing names are popped; ids[i] is the uuid drawn
\* for index i - 1
BumpNames(keys, row, ids) ==
    LET pos == Bump([k \in DOMAIN keys |-> k - 1], row, 0)
    IN  [i \in DOMAIN row |->
            IF \E k \in DOMAIN keys : pos[k] = i - 1
            THEN keys[CHOOSE k \in DOMAIN keys : pos[k] = i - 1]
            ELSE EmptyPrefix \o ids[i]]

\* while bumps[-1].startswith('empty_') raises IndexError on an empty list
PopRaises(bumps) == \A i \in DOMAIN bumps : StartsWith(bumps[i], EmptyPrefix)

PopEmpty(bumps) ==
    LET last == CHOOSE i \in DOMAIN bumps :
                    /\ ~StartsWith(bumps[i], EmptyPrefix)
                    /\ \A j \in (i + 1)..Len(bumps) : StartsWith(bumps[j], EmptyPrefix)
    IN  SubSeq(bumps, 1, last)

\* {k: self.layout.layout.get(k, field.Empty()) for k in bumps}
RECURSIVE RemapLayout(_, _, _)
RemapLayout(old, bumps, i) ==
    IF i > Len(bumps) THEN <<>>
    ELSE IF \E j \in 1..(i - 1) : bumps[j] = bumps[i] THEN RemapLayout(old, bumps, i + 1)
    ELSE LET k == bumps[i]
             f == IF \E j \in DOMAIN old : old[j].name = k
                  THEN old[CHOOSE j \in DOMAIN old : old[j].name = k].field
                  ELSE Empty
         IN  <<[name |-> k, field |-> f]>> \o RemapLayout(old, bumps, i + 1)

\* the Layout after lines 277-300, for a header row that does not raise
Remap(lay, row, ids) ==
    LET bumps == PopEmpty(BumpNames(Keys(lay.layout), row, ids))
        new == RemapLayout(lay.layout, bumps, 1)
    IN  [lay EXCEPT !.layout = new,
                    !.rules = [i \in DOMAIN lay.rules |->
                                  IF lay.rules[i].cls \in RowRules
                                  THEN Rule(lay.rules[i].cls, Len(new))
                                  ELSE lay.rules[i]]]

(* --------------------------- the File check --------------------------- *)
VARIABLES
    path,           \* the file system entry check is given: [exists, matches]
    source,         \* the rows the row source delivers, in order
    this,           \* the _BaseFile object: [skip_rows, max_errors, rules]
    layout,         \* the Layout object of the File (self.layout)
    pc,             \* position in _BaseFile._check
    rix,            \* index of the last row taken from the generator, -1 before
    re,             \* result of the last header or row check
    e,              \* the error list of _check
    column_cache,   \* column_cache and column_cache_map: a list of [k, ix, v]
    result,         \* the value _check returned
    exc,            \* the exception that escaped _check, "none" if none
    runs,           \* number of check calls started on this File
    history,        \* what each earlier check call left: [result, exc, keys, anew]
    subject,        \* the Field or Layout a caller checks values against directly
    inputs,         \* the values the caller hands to the subject, one per call
    answers         \* what the check calls made on the subject so far returned

vars == <<path, source, this, layout, pc, rix, re, e, column_cache, result, exc,
          runs, history, debug, subject, inputs, answers>>

\* the state of a File check
file == <<path, source, this, layout, pc, rix, re, e, column_cache, result, exc,
          runs, history>>

\* the state of the check calls made on a Field or Layout directly
direct == <<subject, inputs, answers>>

FileName == <<"f", "i", "l", "e">>

\* _BaseFile.__init__
NewFile(lay, skip_rows, max_errors, file_name_pattern) ==
    [skip_rows |-> skip_rows, max_errors |-> max_errors,
     rules |-> <<Rule("FileExists", 0)>> \o
               (IF file_name_pattern THEN <<Rule("FileNameMatch", 0)>> ELSE <<>>)]

\* the exception of table.MaxError, the marker that ends row reading
MaxErrorMsg == UrNotMyDataError("MaxError", <<>>, <<>>)

\* the limit taken as the number of errors at which reading stops
MaxExceededAtLimit(errors, max_errors) == Len(errors) >= max_errors

\* the limit taken as one error more than len(e) > self.max_errors allows
MaxExceededLate(errors, max_errors) == Len(errors) > max_errors + 1

\* len(e) > self.max_errors
MaxExceeded(errors, max_errors) == Len(errors) > max_errors

\* column_cache and column_cache_map as built at the start of _check
NewColumnCache(lay) ==
    LET d == lay.layout
        with == SelectSeq([i \in DOMAIN d |-> i], LAMBDA i : has_rule_type(d[i].field, "column"))
    IN  [j \in DOMAIN with |-> [k |-> d[with[j]].name, ix |-> with[j] - 1, v |-> <<>>]]

IsHeader(i) == i = 0 + this.skip_rows /\ layout.no_header = FALSE

\* a pre-flight that applies no file rule
PreflightNone(rules, p) == <<>>

\* e = super()._check(p, rule_type=table.Rule)
Preflight(rules, p) == BaseSubjectCheck(rules, p, "file", FALSE, NoEnv)

\* the pre-flight file rules and the set-up of the column cache
Check ==
    /\ UNCHANGED <<debug, direct>>
    /\ pc = "idle"
    /\ LET fe == Preflight(this.rules, path)
       IN  IF fe # <<>>
           THEN /\ result' = FileError(FileName, fe)
                /\ pc' = "done"
                /\ UNCHANGED <<e, column_cache>>
           ELSE /\ e' = fe
                /\ column_cache' = NewColumnCache(layout)
                /\ pc' = "rows"
                /\ UNCHANGED result
    /\ UNCHANGED <<path, source, this, layout, rix, re, exc, runs, history>>

\* an iteration for a row before skip_rows
SkipRow ==
    /\ UNCHANGED <<debug, direct>>
    /\ pc = "rows"
    /\ rix + 1 < Len(source)
    /\ rix + 1 < this.skip_rows
    /\ rix' = rix + 1
    /\ UNCHANGED <<path, source, this, layout, pc, re, e, column_cache, result, exc,
                   runs, history>>

\* a loop that goes on after a header error
HeaderBreakNever(i, r) == FALSE

\* if header error present, stop checking rows
HeaderBreak(i, r) == r # None /\ IsHeader(i)

\* the iteration for the header row
ReadHeader ==
    /\ UNCHANGED <<debug, direct>>
    /\ pc = "rows"
    /\ rix + 1 < Len(source)
    /\ IsHeader(rix + 1)
    /\ LET row == source[rix + 2]
           hre == LayoutCheck(layout, row, "header", rix + 1)
       IN  /\ rix' = rix + 1
           /\ re' = hre
           /\ \E ids \in [DOMAIN row -> AnonIds] :
                IF layout.empty_cols_ok /\ PopRaises(BumpNames(Keys(layout.layout), row, ids))
                THEN /\ pc' = "raised"
                     /\ exc' = "IndexError"
                     /\ UNCHANGED <<layout, e>>
                ELSE /\ layout' = IF layout.empty_cols_ok THEN Remap(layout, row, ids)
                                  ELSE layout
                     /\ exc' = exc
                     /\ e' = IF hre # None THEN Append(e, hre) ELSE e
                     /\ pc' = IF HeaderBreak(rix + 1, hre) THEN "finalize" ELSE pc
    /\ UNCHANGED <<path, source, this, column_cache, result, runs, history>>

\* the iteration for a data row
ReadData ==
    /\ UNCHANGED <<debug, direct>>
    /\ pc = "rows"
    /\ rix + 1 < Len(source)
    /\ rix + 1 >= this.skip_rows
    /\ ~IsHeader(rix + 1)
    /\ LET raw == source[rix + 2]
           row == IF layout.empty_cols_ok
                  THEN SubSeq(raw, 1, Min(field_count(layout), Len(raw)))
                  ELSE raw
           rre == LayoutCheck(layout, row, "row", rix + 1)
           e1 == IF rre # None THEN Append(e, rre) ELSE e
           stop == rre # None /\ MaxExceeded(e1, this.max_errors)
           bad == {i \in DOMAIN column_cache : column_cache[i].ix >= Len(row)}
           firstBad == CHOOSE i \in bad : \A j \in bad : i <= j
       IN  /\ rix' = rix + 1
           /\ re' = rre
           /\ IF stop
              THEN /\ e' = Append(e1, MaxErrorMsg)
                   /\ pc' = "finalize"
                   /\ UNCHANGED <<column_cache, exc>>
              ELSE /\ e' = e1
                   /\ column_cache' =
                        [i \in DOMAIN column_cache |->
                            IF bad = {} \/ i < firstBad
                            THEN [column_cache[i] EXCEPT
                                     !.v = Append(@, row[column_cache[i].ix + 1])]
                            ELSE column_cache[i]]
                   /\ IF bad = {}
                      THEN pc' = pc /\ exc' = exc
                      ELSE pc' = "raised" /\ exc' = "IndexError"
    /\ UNCHANGED <<path, source, this, layout, result, runs, history>>

\* the generator is exhausted
EndOfRows ==
    /\ UNCHANGED <<debug, direct>>
    /\ pc = "rows"
    /\ rix + 1 = Len(source)
    /\ pc' = "finalize"
    /\ UNCHANGED <<path, source, this, layout, rix, re, e, column_cache, result, exc,
                   runs, history>>

\* a return that leaves the cached columns unchecked
ColumnChecksNone(lay, cache, i) == <<>>

\* the Column checks made from the last cached column to the first
RECURSIVE ColumnChecksReversed(_, _, _)
ColumnChecksReversed(lay, cache, i) ==
    IF i > Len(cache) THEN <<>>
    ELSE LET c == cache[i]
             t == lay.layout[CHOOSE j \in DOMAIN lay.layout : lay.layout[j].name = c.k].field
             ce == FieldCheck(t, c.v, c.ix, "column", 0, c.k)
             rest == ColumnChecksReversed(lay, cache, i + 1)
         IN  IF ce = None THEN rest ELSE rest \o <<ce>>

\* the Column checks of the cached columns from entry i on
RECURSIVE ColumnChecks(_, _, _)
ColumnChecks(lay, cache, i) ==
    IF i > Len(cache) THEN <<>>
    ELSE LET c == cache[i]
             t == lay.layout[CHOOSE j \in DOMAIN lay.layout : lay.layout[j].name = c.k].field
             ce == FieldCheck(t, c.v, c.ix, "column", 0, c.k)
             rest == ColumnChecks(lay, cache, i + 1)
         IN  IF ce = None THEN rest ELSE <<ce>> \o rest

\* the loop over column_cache after the rows, and the return
Finalize ==
    /\ UNCHANGED <<debug, direct>>
    /\ pc = "finalize"
    /\ IF \E i \in DOMAIN column_cache : column_cache[i].k \notin Range(Keys(layout.layout))
       THEN /\ pc' = "raised"
            /\ exc' = "KeyError"
            /\ UNCHANGED <<e, result>>
       ELSE /\ e' = e \o ColumnChecks(layout, column_cache, 1)
            /\ result' = IF e' # <<>> THEN FileError(FileName, e') ELSE None
            /\ pc' = "done"
            /\ exc' = exc
    /\ UNCHANGED <<path, source, this, layout, rix, re, column_cache, runs, history>>

Past(anew) ==
    [result |-> result, exc |-> exc, keys |-> Keys(layout.layout), anew |-> anew]

\* the caller calls check again on the same File object and the same file
Recheck ==
    /\ UNCHANGED <<debug, direct>>
    /\ pc \in {"done", "raised"}
    /\ runs < MaxRuns
    /\ runs' = runs + 1
    /\ history' = Append(history, Past(FALSE))
    /\ pc' = "idle"
    /\ rix' = -1
    /\ re' = None
    /\ e' = <<>>
    /\ column_cache' = <<>>
    /\ result' = None
    /\ exc' = "none"
    /\ UNCHANGED <<path, source, this, layout>>

\* the caller builds an equal Layout and File and checks the same file with them
CheckAnew ==
    /\ UNCHANGED <<debug, direct>>
    /\ pc \in {"done", "raised"}
    /\ runs < MaxRuns
    /\ runs' = runs + 1
    /\ history' = Append(history, Past(TRUE))
    /\ layout' = NewLayout(layout.definition, layout)
    /\ pc' = "idle"
    /\ rix' = -1
    /\ re' = None
    /\ e' = <<>>
    /\ column_cache' = <<>>
    /\ result' = None
    /\ exc' = "none"
    /\ UNCHANGED <<path, source, this>>

(* --------------------------- specifications ---------------------------- *)
\* the rows a row source can deliver: every row of at most two cells
Rows ==
    {<<>>, <<EmptyStr>>, <<Str_a>>,
     <<EmptyStr, EmptyStr>>, <<EmptyStr, Str_a>>, <<Str_a, EmptyStr>>, <<Str_a, Str_a>>}

SourcesOf(n) == UNION {[1..m -> Rows] : m \in 0..n}

Sources == SourcesOf(MaxRows)

UniqueRule == Rule("Unique", 0)

\* the layout checked: {'a': Text(1, rules=[Unique()])}
Definitions ==
    {<<[name |-> Str_a, field |-> Text(1, FALSE, <<UniqueRule>>)]>>}

Options ==
    {kw \in [skip_header : BOOLEAN, empty_row_ok : {FALSE}, header_mode : {"exact"},
             empty_cols_ok : BOOLEAN, no_header : BOOLEAN] :
        kw.no_header => ~kw.skip_header}

SkipRows == {0, 1}

Limits == {-1, 0, 1}

(* the file given to check and the file_name_pattern of the File: a file   *)
(* that exists, checked without a pattern; a path that does not exist; a   *)
(* file of at most one row checked with a pattern its name may not match   *)
Inputs ==
    {[path |-> [exists |-> TRUE, matches |-> TRUE], pattern |-> FALSE, source |-> s] :
        s \in Sources}
    \cup {[path |-> [exists |-> FALSE, matches |-> m], pattern |-> p, source |-> <<>>] :
        m \in BOOLEAN, p \in BOOLEAN}
    \cup {[path |-> [exists |-> TRUE, matches |-> m], pattern |-> TRUE, source |-> s] :
        m \in BOOLEAN, s \in SourcesOf(1)}

Start(in, d, kw, skip_rows, max_errors) ==
    /\ path = in.path
    /\ source = in.source
    /\ layout = NewLayout(d, kw)
    /\ this = NewFile(layout, skip_rows, max_errors, in.pattern)
    /\ pc = "idle"
    /\ rix = -1
    /\ re = None
    /\ e = <<>>
    /\ column_cache = <<>>
    /\ result = None
    /\ exc = "none"
    /\ runs = 1
    /\ history = <<>>
    /\ debug = FALSE
    /\ subject = None
    /\ inputs = <<>>
    /\ answers = <<>>

Init ==
    \E in \in Inputs, d \in Definitions, kw \in Options,
       skip_rows \in SkipRows, max_errors \in Limits :
        Start(in, d, kw, skip_rows, max_errors)

Next ==
    \/ Check
    \/ SkipRow
    \/ ReadHeader
    \/ ReadData
    \/ EndOfRows
    \/ Finalize

Spec == Init /\ [][Next]_vars

(* check called a second time, on the same File object or on an equal new  *)
(* one, for layouts made with empty_cols_ok                                *)
InitRerun ==
    \E in \in Inputs, d \in Definitions, kw \in Options, skip_rows \in SkipRows :
        /\ kw.empty_cols_ok
        /\ Start(in, d, kw, skip_rows, 1)

NextRerun ==
    \/ Next
    \/ Recheck
    \/ CheckAnew

SpecRerun == InitRerun /\ [][NextRerun]_vars

(* files checked against the layout {'a': Text(1, rules=[Unique()]),       *)
(* 'b': Text(1, rules=[Unique()])}                                         *)
TwoFields ==
    <<[name |-> Str_a, field |-> Text(1, FALSE, <<UniqueRule>>)],
      [name |-> <<"b">>, field |-> Text(1, FALSE, <<UniqueRule>>)]>>

\* the rows of such files: those of Rows, and the header a,b
RowsTwoFields == Rows \cup {<<Str_a, <<"b">>>>}

InitTwoFields ==
    \E s \in UNION {[1..m -> RowsTwoFields] : m \in 0..MaxRows},
       no_header \in BOOLEAN, skip_rows \in SkipRows, max_errors \in {0, 1} :
        Start([path |-> [exists |-> TRUE, matches |-> TRUE], pattern |-> FALSE, source |-> s],
              TwoFields,
              [skip_header |-> FALSE, empty_row_ok |-> FALSE, header_mode |-> "exact",
               empty_cols_ok |-> FALSE, no_header |-> no_header],
              skip_rows, max_errors)

SpecTwoFields == InitTwoFields /\ [][Next]_vars

(* ---------------------- a Field checked directly ----------------------- *)
\* no File check is made
NoFile ==
    /\ path = [exists |-> FALSE, matches |-> FALSE]
    /\ source = <<>>
    /\ layout = None
    /\ this = None
    /\ pc = "none"
    /\ rix = -1
    /\ re = None
    /\ e = <<>>
    /\ column_cache = <<>>
    /\ result = None
    /\ exc = "none"
    /\ runs = 0
    /\ history = <<>>

\* the field a caller constructs; Field.__init__ takes strip from its keyword
\* arguments and drops the others, all_errors among them
NewField(cls, nullable, rules, all_errors) ==
    CASE cls = "Text" -> Text(1, nullable, rules)
      [] cls = "Integer" -> Integer(1, nullable, rules)
      [] OTHER -> Field(nullable, rules)

\* Field.check_cell: the next value is checked, without coordinates
CheckCell ==
    /\ subject.kind = "field"
    /\ Len(answers) < Len(inputs)
    /\ answers' = Append(answers,
            FieldCheck(subject.t, [val |-> inputs[Len(answers) + 1], comp |-> <<>>],
                       -1, "cell", 0, <<>>))
    /\ UNCHANGED <<file, debug, subject, inputs>>

\* the rules callers give to fields
RulePool == {Rule("ExactChar", 1), Rule("MaxChar", 0), Rule("NumericGT", 0)}

RuleLists == UNION {[1..n -> RulePool] : n \in 0..MaxRules}

\* the values callers check: '', 'a', '0', '1' and None
Values == {EmptyStr, Str_a, <<"0">>, <<"1">>, PyNone}

InitCell ==
    /\ NoFile
    /\ debug \in BOOLEAN
    /\ \E cls \in {"Field", "Text"}, nullable \in BOOLEAN, rules \in RuleLists,
          all_errors \in BOOLEAN :
            subject = [kind |-> "field", all_errors |-> all_errors, rules |-> rules,
                       t |-> NewField(cls, nullable, rules, all_errors)]
    /\ inputs \in [1..MaxCalls -> Values]
    /\ answers = <<>>

NextCell == CheckCell

SpecCell == InitCell /\ [][NextCell]_vars

(* ---------------------- a Layout checked directly ---------------------- *)
\* Layout.check_row: the next row is checked, rix being -1
CheckRow ==
    /\ subject.kind = "layout"
    /\ Len(answers) < Len(inputs)
    /\ answers' = Append(answers,
            LayoutCheck(subject.lay, inputs[Len(answers) + 1], "row", -1))
    /\ UNCHANGED <<file, debug, subject, inputs>>

Str_b == <<"b">>

\* the fields of the layouts: a number above 0 that is required, one that is
\* optional, and a field that is ignored
FieldPool ==
    {Field(FALSE, <<Rule("NumericGT", 0)>>), Field(TRUE, <<Rule("NumericGT", 0)>>), Ignore}

\* layouts of one field a and of two fields a, b
RowDefinitions ==
    {<<[name |-> Str_a, field |-> f]>> : f \in FieldPool}
    \cup {<<[name |-> Str_a, field |-> f], [name |-> Str_b, field |-> g]>> :
            f \in FieldPool, g \in FieldPool}

\* rows of at most two cells, each '', 'a', 'b' or '1'
RowsDirect == UNION {[1..n -> {EmptyStr, Str_a, Str_b, <<"1">>}] : n \in {0, 1, 2}}

InitRow ==
    /\ NoFile
    /\ debug \in BOOLEAN
    /\ \E d \in RowDefinitions, ok \in BOOLEAN :
            subject = [kind |-> "layout",
                       lay |-> NewLayout(d, [skip_header |-> FALSE, empty_row_ok |-> ok,
                                             header_mode |-> "exact", empty_cols_ok |-> FALSE,
                                             no_header |-> FALSE])]
    /\ inputs \in [{1, 2} -> RowsDirect]
    /\ answers = <<>>

NextRow == CheckRow

SpecRow == InitRow /\ [][NextRow]_vars

(* ------------------ Fields built from one rules list ------------------- *)
(* The caller holds a list L of rules and passes it as rules=L to each     *)
(* constructor it calls. subject is the caller's view: the list objects    *)
(* that exist (heap, a list object being named by its index), the index of *)
(* L and what L held before the first call; answers holds the fields       *)
(* built, each with the index of the list object its rules attribute names *)

\* self.rules = rules or []: the list object given unless it is empty
RulesRef(heap, ref) == IF heap[ref] # <<>> THEN ref ELSE Len(heap) + 1

\* the constructor of the next field is called with rules=L
BuildField ==
    /\ subject.kind = "lists"
    /\ Len(answers) < Len(inputs)
    /\ LET call == inputs[Len(answers) + 1]
           ref == RulesRef(subject.heap, subject.L)
           held == IF ref \in DOMAIN subject.heap THEN subject.heap[ref] ELSE <<>>
           obj == NewField(call.cls, call.nullable, held, TRUE)
       IN  /\ subject' = [subject EXCEPT !.heap =
                              [i \in 1..(IF ref > Len(@) THEN ref ELSE Len(@)) |->
                                  IF i = ref THEN obj.rules ELSE @[i]]]
           /\ answers' = Append(answers, [obj EXCEPT !.rules = ref])
    /\ UNCHANGED <<file, debug, inputs>>

\* the constructor calls a caller makes
Calls == [cls : {"Field", "Text", "Integer"}, nullable : BOOLEAN]

\* the lists a caller passes: rules of RulePool and Unique, at most MaxRules
CallerLists == UNION {[1..n -> RulePool \cup {UniqueRule}] : n \in 0..MaxRules}

InitBuild ==
    /\ NoFile
    /\ debug = FALSE
    /\ \E l \in CallerLists : subject = [kind |-> "lists", L |-> 1, orig |-> l, heap |-> <<l>>]
    /\ inputs \in [1..MaxCalls -> Calls]
    /\ answers = <<>>

NextBuild == BuildField

SpecBuild == InitBuild /\ [][NextBuild]_vars

(* ------------------- a column checked by a Field ----------------------- *)
\* Field.check_column: the next list of values is checked, cix being -1
CheckColumn ==
    /\ subject.kind = "column"
    /\ Len(answers) < Len(inputs)
    /\ answers' = Append(answers,
            FieldCheck(subject.t, inputs[Len(answers) + 1], -1, "column", 0, <<>>))
    /\ UNCHANGED <<file, debug, subject, inputs>>

\* columns of at most four values, each '', 'a' or 'b'
Columns == UNION {[1..n -> {EmptyStr, Str_a, Str_b}] : n \in {0, 1, 2, 3, 4}}

InitColumn ==
    /\ NoFile
    /\ debug \in BOOLEAN
    /\ \E nullable \in BOOLEAN :
            subject = [kind |-> "column", t |-> Field(nullable, <<UniqueRule>>)]
    /\ inputs \in [{1} -> Columns]
    /\ answers = <<>>

NextColumn == CheckColumn

SpecColumn == InitColumn /\ [][NextColumn]_vars

(* the rows checked by Layout({'a': Integer(2, rules=[GreaterThanColumn(   *)
(* 'b')]), 'b': Integer(2)})                                               *)
Compare ==
    <<[name |-> Str_a, field |-> Integer(2, FALSE, <<Rule("GreaterThanColumn", Str_b)>>)],
      [name |-> Str_b, field |-> Integer(2, FALSE, <<>>)]>>

\* the cell values of those rows
Numerals ==
    {EmptyStr, Str_a, <<"0">>, <<"1">>, <<"2">>, <<"3">>, <<"9">>, <<"0", "1">>,
     <<"1", "0">>, <<"1", "1">>, <<"2", "0">>, <<"1", "0", "0">>}

InitCompare ==
    /\ NoFile
    /\ debug \in BOOLEAN
    /\ \E ok \in BOOLEAN :
            subject = [kind |-> "layout",
                       lay |-> NewLayout(Compare, [skip_header |-> FALSE, empty_row_ok |-> ok,
                                                   header_mode |-> "exact",
                                                   empty_cols_ok |-> FALSE,
                                                   no_header |-> FALSE])]
    /\ inputs \in [{1} -> UNION {[1..n -> Numerals] : n \in {1, 2}}]
    /\ answers = <<>>

SpecCompare == InitCompare /\ [][NextRow]_vars

(* ------------------- a header checked by a Layout ---------------------- *)
\* Layout.check_header: the next header is checked, rix being 0
CheckHeader ==
    /\ subject.kind = "header"
    /\ Len(answers) < Len(inputs)
    /\ answers' = Append(answers,
            LayoutCheck(subject.lay, inputs[Len(answers) + 1], "header", 0))
    /\ UNCHANGED <<file, debug, subject, inputs>>

Str_c == <<"c">>

\* layouts of the fields a, b and a, b, c
HeaderDefinitions ==
    {<<[name |-> Str_a, field |-> Field(TRUE, <<>>)], [name |-> Str_b, field |-> Field(TRUE, <<>>)]>>,
     <<[name |-> Str_a, field |-> Field(TRUE, <<>>)], [name |-> Str_b, field |-> Field(TRUE, <<>>)],
       [name |-> Str_c, field |-> Field(TRUE, <<>>)]>>}

\* the names, the names with a suffix, a name with a prefix, and a stranger
Tokens ==
    {Str_a, Str_b, Str_c, <<"a", "1">>, <<"b", "1">>, <<"c", "1">>, <<"1", "b">>, <<"x">>}

\* header rows of at most three tokens
Headers == UNION {[1..n -> Tokens] : n \in {0, 1, 2, 3}}

\* a layout in which one name is a prefix of the other: the fields a and ab
PrefixDefinition ==
    <<[name |-> Str_a, field |-> Field(TRUE, <<>>)],
      [name |-> <<"a", "b">>, field |-> Field(TRUE, <<>>)]>>

\* the two names, each with a suffix or a prefix, and a stranger
PrefixTokens ==
    {Str_a, <<"a", "b">>, <<"a", "1">>, <<"a", "b", "1">>, <<"1", "a">>, <<"1", "a", "b">>,
     <<"x">>}

InitPrefix ==
    /\ NoFile
    /\ debug \in BOOLEAN
    /\ \E mode \in {"exact", "startswith", "contains"} :
            subject = [kind |-> "header",
                       lay |-> NewLayout(PrefixDefinition,
                                         [skip_header |-> FALSE, empty_row_ok |-> FALSE,
                                          header_mode |-> mode, empty_cols_ok |-> FALSE,
                                          no_header |-> FALSE])]
    /\ inputs \in [{1} -> UNION {[1..n -> PrefixTokens] : n \in {0, 1, 2, 3}}]
    /\ answers = <<>>

InitHeader ==
    /\ NoFile
    /\ debug \in BOOLEAN
    /\ \E d \in HeaderDefinitions, skip \in BOOLEAN, mode \in {"exact", "startswith", "contains"} :
            subject = [kind |-> "header",
                       lay |-> NewLayout(d, [skip_header |-> skip, empty_row_ok |-> FALSE,
                                             header_mode |-> mode, empty_cols_ok |-> FALSE,
                                             no_header |-> FALSE])]
    /\ inputs \in [{1} -> Headers]
    /\ answers = <<>>

NextHeader == CheckHeader

SpecHeader == InitHeader /\ [][NextHeader]_vars

SpecPrefix == InitPrefix /\ [][NextHeader]_vars

(* ------------------------- the max_errors bound ------------------------ *)
HasKind(errors, kind) == \E i \in DOMAIN errors : errors[i].kind = kind

CountKind(errors, kind) == Cardinality({i \in DOMAIN errors : errors[i].kind = kind})

HasMarker(errors) == HasKind(errors, "MaxError")

HasPattern == \E i \in DOMAIN this.rules : this.rules[i].cls = "FileNameMatch"

PreflightPasses == path.exists /\ (HasPattern => path.matches)

\* index of the first row checked as a data row
FirstData == this.skip_rows + (IF layout.no_header THEN 0 ELSE 1)

\* row i of the source as the data check receives it
AsChecked(i) ==
    LET raw == source[i + 1]
    IN  IF layout.empty_cols_ok THEN SubSeq(raw, 1, Min(field_count(layout), Len(raw)))
        ELSE raw

\* the data rows taken so far that fail the row or cell rules of the layout
FailedData ==
    IF pc = "idle" \/ ~PreflightPasses THEN {}
    ELSE {i \in FirstData..rix : LayoutCheck(layout, AsChecked(i), "row", i) # None}

(* C1: with max_errors = N >= 0 the error list holds the MaxExceeded       *)
(* marker if and only if more than N of the data rows taken so far failed; *)
(* the marker then stands right after the Row node of the (N+1)-th failing *)
(* row, and it is absent while at most N rows have failed.                 *)
C1_MarkerIffLimitExceeded ==
    this.max_errors >= 0 =>
        LET N == this.max_errors
        IN  /\ HasMarker(e) <=> Cardinality(FailedData) > N
            /\ HasMarker(e) =>
                  /\ Cardinality(FailedData) = N + 1
                  /\ Len(e) >= N + 2
                  /\ e[N + 2] = MaxErrorMsg
                  /\ \A i \in 1..(N + 1) : e[i].kind = "Row"

\* one failing row was tolerated and the second one brought the marker
C1_Witness ==
    /\ this.max_errors = 1
    /\ pc = "done"
    /\ HasMarker(e)
    /\ Cardinality(FailedData) = 2

(* C2: with max_errors = -1 no MaxExceeded marker is ever appended and a   *)
(* check that passed pre-flight and the header ends with every row of the  *)
(* source read, each failing data row having its own Row node.             *)
C2_MinusOneUnlimited ==
    this.max_errors = -1 =>
        /\ ~HasMarker(e)
        /\ (pc = "done" /\ PreflightPasses /\ ~(rix >= 0 /\ IsHeader(rix) /\ re # None)) =>
              /\ rix + 1 = Len(source)
              /\ CountKind(e, "Row") = Cardinality(FailedData)

(* C3: once the marker is appended no further row is taken or checked      *)
(* during that check call, and with max_errors = N >= 0 the error list     *)
(* never holds more than N + 1 Row nodes or more than one marker.          *)
C3_MarkerEndsReading ==
    /\ [](this.max_errors >= 0 =>
            /\ CountKind(e, "Row") <= this.max_errors + 1
            /\ CountKind(e, "MaxError") <= 1)
    /\ [][(HasMarker(e) /\ runs' = runs) =>
            /\ rix' = rix
            /\ re' = re
            /\ column_cache' = column_cache
            /\ CountKind(e', "Row") = CountKind(e, "Row")
            /\ CountKind(e', "MaxError") = CountKind(e, "MaxError")]_vars

\* rows were left unread when the marker was appended
C3_Witness ==
    /\ this.max_errors = 0
    /\ pc = "done"
    /\ HasMarker(e)
    /\ CountKind(e, "Row") = 1
    /\ rix + 1 < Len(source)

(* ----------------------- header failure, finalize ---------------------- *)
\* the check of the header row, whether or not the row was reached
HeaderResult ==
    LayoutCheck(layout, source[this.skip_rows + 1], "header", this.skip_rows)

\* the header row was taken and fails a header rule
HeaderFailed ==
    /\ pc # "idle"
    /\ PreflightPasses
    /\ ~layout.no_header
    /\ rix >= this.skip_rows
    /\ HeaderResult # None

Repeats(v) == \E i, j \in DOMAIN v : i < j /\ v[i] = v[j] /\ Strip(v[i]) # <<>>

\* the Column node that reports the repeated values of cache entry c
UniqueFailure(c) ==
    ColumnError(c.ix, <<exception_msg(UniqueRule)>>, c.k)

FileFailures ==
    (IF path.exists THEN <<>>
     ELSE <<exception_msg(Rule("FileExists", 0))>>)
    \o (IF HasPattern /\ ~path.matches
        THEN <<exception_msg(Rule("FileNameMatch", 0))>>
        ELSE <<>>)

(* C6: when a file rule fails in pre-flight, check returns a File error    *)
(* whose children are exactly the file-rule failures; the row source is    *)
(* never opened: no row is taken, no header, row, cell or column check     *)
(* leaves an error and no column cache is built.                           *)
C6_PreflightFailure ==
    (pc # "idle" /\ ~PreflightPasses) =>
        /\ pc = "done"
        /\ result = FileError(FileName, FileFailures)
        /\ FileFailures # <<>>
        /\ rix = -1
        /\ re = None
        /\ e = <<>>
        /\ column_cache = <<>>
        /\ exc = "none"

\* a file with a row in it whose name does not match the pattern
C6_Witness ==
    /\ pc = "done"
    /\ path.exists
    /\ HasPattern
    /\ ~path.matches
    /\ Len(source) > 0
    /\ Len(result.errors) = 1

(* --------------------------- the column cache -------------------------- *)
Started == pc \in {"rows", "finalize", "done", "raised"} /\ PreflightPasses

\* the names of the fields of the layout that declare a Column rule
ColumnRuleFields ==
    LET d == layout.layout
        with == SelectSeq([i \in DOMAIN d |-> i], LAMBDA i : has_rule_type(d[i].field, "column"))
    IN  [j \in DOMAIN with |-> d[with[j]].name]

(* C7: the column cache has one entry for each field that declares a       *)
(* Column rule and no other entry, and every value it retains is the value *)
(* of such a field: the field that stands, in the layout the rows are      *)
(* checked against, at the row position the value was taken from.          *)
C7_CacheOnlyColumnRuleFields ==
    Started =>
        /\ [i \in DOMAIN column_cache |-> column_cache[i].k] = ColumnRuleFields
        /\ \A i \in DOMAIN column_cache :
              column_cache[i].v # <<>> =>
                  /\ column_cache[i].ix + 1 \in DOMAIN layout.layout
                  /\ has_rule_type(layout.layout[column_cache[i].ix + 1].field, "column")

(* C8: rows before skip_rows leave no error and no cached value; without   *)
(* no_header the row at skip_rows is checked by the header rules and is    *)
(* not cached; with no_header every row taken from index skip_rows on is   *)
(* checked as a data row (a failing one has its Row node) and its value at *)
(* each cached position has entered the column cache.                      *)
C8_RowRoles ==
    Started =>
        /\ rix < this.skip_rows => (e = <<>> /\ \A i \in DOMAIN column_cache : column_cache[i].v = <<>>)
        /\ ~layout.no_header =>
              /\ \A i \in DOMAIN column_cache :
                    Len(column_cache[i].v) <= IF rix > this.skip_rows THEN rix - this.skip_rows ELSE 0
              /\ (rix = this.skip_rows /\ pc # "raised") =>
                    e = IF HeaderResult # None THEN <<HeaderResult>> ELSE <<>>
        /\ (layout.no_header /\ rix >= this.skip_rows) =>
              /\ CountKind(e, "Row") = Cardinality(FailedData)
              /\ \A i \in DOMAIN column_cache :
                    LET c == column_cache[i]
                    IN  /\ Len(c.v) = rix + 1 - this.skip_rows
                        /\ \A j \in DOMAIN c.v :
                              /\ c.ix < Len(AsChecked(this.skip_rows + j - 1))
                              /\ c.v[j] = AsChecked(this.skip_rows + j - 1)[c.ix + 1]

(* ------------------------------ two runs ------------------------------- *)
\* a check call has ended after an earlier one
RanAgain(anew) ==
    /\ history # <<>>
    /\ history[Len(history)].anew = anew
    /\ pc \in {"done", "raised"}

(* C9: a second check call on the same File object and the same file       *)
(* leaves the field map (names, order, count) as the first call left it    *)
(* and ends as the first call ended, with the same result.                 *)
C9_ExtendsOnce ==
    (RanAgain(FALSE) /\ layout.empty_cols_ok) =>
        LET first == history[Len(history)]
        IN  /\ Keys(layout.layout) = first.keys
            /\ exc = first.exc
            /\ result = first.result

(* C10: a check call made with an equal new Layout and File on the same    *)
(* file ends as the earlier call ended, with the same error tree and the   *)
(* same rendered report, the names of anonymous columns included.          *)
C10_Deterministic ==
    RanAgain(TRUE) =>
        LET first == history[Len(history)]
        IN  /\ exc = first.exc
            /\ result = first.result
            /\ md(result, 0) = md(first.result, 0)

(* ----------------------- Subject and Field checks ---------------------- *)
\* the k-th value of the caller has been checked against the field
Answered(k) == subject.kind = "field" /\ k \in DOMAIN answers

CellData(k) == [val |-> inputs[k], comp |-> <<>>]

\* the rules of the field run on the k-th value: none when the check is skipped
RulesRun(k) ==
    IF subject.t.nullable /\ inputs[k] = EmptyStr THEN <<>>
    ELSE SelectSeq(subject.t.rules, LAMBDA r : RuleType(r) = "cell")

\* those of the rules run on the k-th value that do not pass
NotPassed(k) == SelectSeq(RulesRun(k), LAMBDA r : Outcome(r, CellData(k), NoEnv) # "pass")

\* a token of the message is text of the exception raised
HasExcText(msg, r, data) ==
    \E i \in DOMAIN msg : msg[i] \in Range(ExcText(r, data)) \/ msg[i] = " [DEBUG]: "

(* C12: a rule that raises while a value is prepared or evaluated leaves   *)
(* exactly one failure of its own kind in the list the check returns, the  *)
(* rules after it are still evaluated (the list has one failure per rule   *)
(* that does not pass, in rule order), and with debug off the message of   *)
(* the failure holds no text of the exception.                             *)
C12_RaisedIsWrapped ==
    \A k \in DOMAIN answers :
        (Answered(k) /\ inputs[k] # PyNone) =>
            LET bad == NotPassed(k)
                got == answers[k].errors
            IN  /\ Len(got) = Len(bad)
                /\ bad # <<>> => answers[k].kind = "Cell"
                /\ \A i \in DOMAIN bad :
                      /\ got[i].kind = bad[i].cls
                      /\ Outcome(bad[i], CellData(k), NoEnv) \notin {"pass", "fail"} =>
                            /\ got[i].msg[1] = "raised "
                            /\ got[i].msg[2] = Outcome(bad[i], CellData(k), NoEnv)
                            /\ ~debug => ~HasExcText(got[i].msg, bad[i], CellData(k))

\* a rule raised with debug off and a rule after it was evaluated and failed
C12_Witness ==
    /\ Answered(1)
    /\ ~debug
    /\ Len(answers[1].errors) >= 2
    /\ answers[1].errors[1].kind = "NumericGT"
    /\ answers[1].errors[1].msg[1] = "raised "
    /\ answers[1].errors[2].msg[1] # "raised "

(* C13: when pre-processing raises, the check returns exactly one          *)
(* PreProcessing failure and no failure of any rule of the field.          *)
C13_PreProcessingShortCircuits ==
    \A k \in DOMAIN answers :
        (Answered(k) /\ inputs[k] = PyNone) =>
            /\ answers[k].kind = "Cell"
            /\ Len(answers[k].errors) = 1
            /\ answers[k].errors[1].kind = "PreProcessing"

\* None was checked against a field with rules that None does not pass
C13_Witness ==
    /\ Answered(1)
    /\ inputs[1] = PyNone
    /\ \E i \in DOMAIN subject.t.rules : subject.t.rules[i] = Rule("MaxChar", 0)
    /\ Len(answers[1].errors) = 1

(* C14: a Cell check of the empty string against a nullable field returns  *)
(* no failure, whatever rules the field carries.                           *)
C14_NullableEmptyPasses ==
    \A k \in DOMAIN answers :
        (Answered(k) /\ subject.t.nullable /\ inputs[k] = EmptyStr) => answers[k] = None

\* the nullable field has a rule the empty string does not pass
C14_Witness ==
    /\ Answered(1)
    /\ subject.t.nullable
    /\ inputs[1] = EmptyStr
    /\ \E i \in DOMAIN subject.t.rules :
          Outcome(subject.t.rules[i], CellData(1), NoEnv) # "pass"
    /\ answers[1] = None

(* C15: a Cell check of the empty string against a non-nullable field      *)
(* returns exactly one not-null failure, and a field made with             *)
(* all_errors = False returns no failure besides it.                       *)
C15_NonNullableEmpty ==
    \A k \in DOMAIN answers :
        (Answered(k) /\ ~subject.t.nullable /\ inputs[k] = EmptyStr) =>
            /\ CountKind(answers[k].errors, "NotNull") = 1
            /\ ~subject.all_errors => Len(answers[k].errors) = 1

(* C16: the rule list of a non-nullable field starts with the not-null     *)
(* rule, before the caller's rules and the rules of the field type, so the *)
(* not-null failure is the first failure recorded for an empty cell.       *)
C16_NotNullFirst ==
    (subject.kind = "field" /\ ~subject.t.nullable) =>
        /\ subject.t.rules[1] = NotNullRule
        /\ \A k \in DOMAIN answers :
              inputs[k] = EmptyStr => answers[k].errors[1].kind = "NotNull"

(* ------------------------ claims on Layout rows ------------------------ *)
RowAnswered(k) == subject.kind = "layout" /\ k \in DOMAIN answers

LayoutEnv(lay) == [definition |-> Keys(lay.definition), header_mode |-> lay.header_mode]

\* the outcomes of the row rules of the Layout on the row, in rule order
RowOutcomes(lay, row) ==
    LET rr == SelectSeq(lay.rules, LAMBDA r : RuleType(r) = "row")
    IN  [i \in DOMAIN rr |-> Outcome(rr[i], row, LayoutEnv(lay))]

\* the outcomes of the rules of each field on its cell, "skipped" where the
\* field runs no rule on the value
CellOutcomes(lay, row) ==
    [i \in 1..Min(Len(lay.layout), Len(row)) |->
        LET f == lay.layout[i].field
        IN  IF f.type = "Ignore" \/ (f.nullable /\ row[i] = EmptyStr) THEN <<"skipped">>
            ELSE [j \in DOMAIN f.rules |->
                     Outcome(f.rules[j], [val |-> row[i], comp |-> <<>>], NoEnv)]]

\* the shape of the row and the outcome of every rule that is run on it
Profile(lay, row) ==
    [shape |-> Len(row),
     row |-> RowOutcomes(lay, row),
     cells |-> IF (\E i \in DOMAIN RowOutcomes(lay, row) : RowOutcomes(lay, row)[i] # "pass")
                  \/ EmptyRow(lay, row)
               THEN <<>> ELSE CellOutcomes(lay, row)]

(* C11: with debug off, two rows of the same length on which every rule    *)
(* that is run has the same outcome (pass, fail, or the type of the        *)
(* exception raised) at the same coordinates get the same error tree and   *)
(* the same rendered text, whatever their cells hold.                      *)
C11_ReportIgnoresContents ==
    (subject.kind = "layout" /\ Len(answers) = 2 /\ ~debug
        /\ Profile(subject.lay, inputs[1]) = Profile(subject.lay, inputs[2])) =>
            /\ answers[1] = answers[2]
            /\ md(answers[1], 0) = md(answers[2], 0)

C11_Witness ==
    /\ subject.kind = "layout" /\ Len(answers) = 2 /\ ~debug
    /\ Len(inputs[1]) = field_count(subject.lay)
    /\ Profile(subject.lay, inputs[1]) = Profile(subject.lay, inputs[2])
    /\ \E i \in DOMAIN inputs[1] : /\ inputs[1][i] # EmptyStr
                                    /\ inputs[2][i] # inputs[1][i]
                                    /\ subject.lay.layout[i].field.type # "Ignore"
    /\ answers[1].kind = "Row"
    /\ \E c \in DOMAIN answers[1].errors :
          /\ answers[1].errors[c].kind = "Cell"
          /\ \E j \in DOMAIN answers[1].errors[c].errors :
                answers[1].errors[c].errors[j].msg[1] = "raised "

AllEmptyOrIgnored(lay, row) ==
    /\ Len(row) = field_count(lay)
    /\ \A i \in DOMAIN row : row[i] = EmptyStr \/ lay.layout[i].field.type = "Ignore"

\* the positions of the fields that are neither nullable nor Ignore
Required(lay) ==
    {i \in DOMAIN lay.layout :
        lay.layout[i].field.type # "Ignore" /\ ~lay.layout[i].field.nullable}

(* C20: with empty_row_ok set, a row of the right length whose every value *)
(* is empty or under an Ignore field is accepted: no failure and no Cell   *)
(* node, even when a field is not nullable. With empty_row_ok unset the    *)
(* same row is checked cell by cell: it is accepted only when no field is  *)
(* required, and otherwise its Row node holds one Cell node for each       *)
(* required field, with the NotNull failure of that field.                 *)
C20_EmptyRowAccepted ==
    \A k \in DOMAIN answers :
        (RowAnswered(k) /\ AllEmptyOrIgnored(subject.lay, inputs[k])) =>
            IF subject.lay.empty_row_ok THEN answers[k] = None
            ELSE LET req == Required(subject.lay)
                 IN  /\ (answers[k] = None) <=> (req = {})
                     /\ req # {} =>
                           /\ answers[k].kind = "Row"
                           /\ Len(answers[k].errors) = Cardinality(req)
                           /\ \A c \in DOMAIN answers[k].errors :
                                 /\ answers[k].errors[c].kind = "Cell"
                                 /\ HasKind(answers[k].errors[c].errors, "NotNull")

C20_Witness ==
    /\ RowAnswered(1)
    /\ subject.lay.empty_row_ok
    /\ AllEmptyOrIgnored(subject.lay, inputs[1])
    /\ Required(subject.lay) # {}
    /\ \E i \in DOMAIN inputs[1] : inputs[1][i] # EmptyStr
    /\ answers[1] = None

(* --------------------------- claims on headers ------------------------- *)
\* the header check of the Layout has run on the header
HeaderAnswered ==
    /\ subject.kind = "header"
    /\ ~subject.lay.skip_header
    /\ Len(answers) = 1

Names == Keys(subject.lay.definition)

\* the answer holds a failure of the rule, raised or not
Failed(cls) == HasKind(answers[1].errors, cls)

(* C18: in exact mode the header check of a Layout that does not skip its  *)
(* header reports no failure if and only if the header equals the list of  *)
(* the field names, in order; and when there is no ColumnOrder failure     *)
(* there is no NoExtra, NoMissing or NoDuplicate failure either.           *)
C18_ExactHeader ==
    (HeaderAnswered /\ subject.lay.header_mode = "exact") =>
        /\ (answers[1] = None) <=> (inputs[1] = Names)
        /\ answers[1] # None => answers[1].kind = "Row"
        /\ ~Failed("ColumnOrder") =>
              ~Failed("NoExtra") /\ ~Failed("NoMissing") /\ ~Failed("NoDuplicate")

C18_Witness ==
    /\ HeaderAnswered
    /\ subject.lay.header_mode = "exact"
    /\ Len(Names) = 3
    /\ inputs[1] = Names
    /\ answers[1] = None

\* the token matches the expected name under the header mode of the Layout
Matches(token, name) ==
    IF subject.lay.header_mode = "startswith"
    THEN Len(token) >= Len(name) /\ \A c \in DOMAIN name : token[c] = name[c]
    ELSE \E off \in 0..(Len(token) - Len(name)) : \A c \in DOMAIN name : token[off + c] = name[c]

\* the tokens of the header each match an expected name
AllMatch == \A i \in DOMAIN inputs[1] : \E j \in DOMAIN Names : Matches(inputs[1][i], Names[j])

\* the index of the first expected name the i-th token matches
Matched(i) ==
    CHOOSE j \in DOMAIN Names :
        /\ Matches(inputs[1][i], Names[j])
        /\ \A l \in 1..(j - 1) : ~Matches(inputs[1][i], Names[l])

OutOfOrder == \E i \in 1..(Len(inputs[1]) - 1) : Matched(i) > Matched(i + 1)

\* the answer holds the failure of a ColumnOrder evaluated to false
OrderFailure == \E i \in DOMAIN answers[1].errors :
                    answers[1].errors[i] = exception_msg(Rule("ColumnOrder", 0))

(* C19: in startswith and contains mode ColumnOrder is decided on the list *)
(* of the indexes of the expected names the tokens match: the check holds  *)
(* the ColumnOrder failure exactly when every token matches a name and the *)
(* list of matched indexes decreases somewhere (a token that matches no    *)
(* name makes the rule raise instead), so with the names a, b, c the       *)
(* header a1, c1, b1 fails ColumnOrder and passes NoExtra.                 *)
C19_OrderOnMatchedIndexes ==
    (HeaderAnswered /\ subject.lay.header_mode # "exact") =>
        /\ OrderFailure <=> (AllMatch /\ OutOfOrder)
        /\ AllMatch => ~Failed("NoExtra")
        /\ ~AllMatch =>
              \E i \in DOMAIN answers[1].errors :
                  answers[1].errors[i].kind = "ColumnOrder" /\ answers[1].errors[i].msg[1] = "raised "

C19_Witness ==
    /\ HeaderAnswered
    /\ subject.lay.header_mode = "startswith"
    /\ Names = <<Str_a, Str_b, Str_c>>
    /\ inputs[1] = <<<<"a", "1">>, <<"c", "1">>, <<"b", "1">>>>
    /\ OrderFailure
    /\ ~Failed("NoExtra")

(* ------------------------- claims on File checks ----------------------- *)
\* the check call has ended, by a return or by an exception
Ended == pc \in {"done", "raised"} /\ PreflightPasses

\* the header of the file: the expected names in order, with at least one
\* empty cell between or after them
HeaderWithEmpties ==
    /\ ~layout.no_header
    /\ Len(source) > this.skip_rows + 1
    /\ SelectSeq(source[this.skip_rows + 1], LAMBDA c : c # EmptyStr) = Keys(layout.definition)
    /\ \E i \in DOMAIN source[this.skip_rows + 1] : source[this.skip_rows + 1][i] = EmptyStr

\* the cells of the row under the named columns of the header
Named(row) ==
    LET h == source[this.skip_rows + 1]
        at == SelectSeq([i \in DOMAIN h |-> i], LAMBDA i : h[i] # EmptyStr)
    IN  [j \in DOMAIN at |-> row[at[j]]]

\* every data row is as long as the header, empty at the anonymous positions
\* and holds under each name a value its field accepts; no column that must be
\* unique repeats a value
DataValid ==
    LET h == source[this.skip_rows + 1]
        d == layout.definition
        data == (this.skip_rows + 2)..Len(source)
    IN  /\ \A r \in data :
              /\ Len(source[r]) = Len(h)
              /\ \A i \in DOMAIN h : h[i] = EmptyStr => source[r][i] = EmptyStr
              /\ \A j \in DOMAIN d :
                    FieldCheck(d[j].field, [val |-> Named(source[r])[j], comp |-> <<>>],
                               j - 1, "cell", r - 1, d[j].name) = None
        /\ \A j \in DOMAIN d :
              has_rule_type(d[j].field, "column") =>
                  FieldCheck(d[j].field,
                             [k \in 1..(Len(source) - this.skip_rows - 1) |->
                                 Named(source[this.skip_rows + 1 + k])[j]],
                             j - 1, "column", 0, d[j].name) = None

(* C21: a file whose header is the expected names in order with empty      *)
(* cells between or after them, and whose data rows (at least one) are     *)
(* valid under the names and empty elsewhere, passes the check of a Layout *)
(* made with empty_cols_ok, and gets a File error from one made without.   *)
C21_EmptyColumnsAccepted ==
    (Ended /\ HeaderWithEmpties /\ DataValid) =>
        /\ pc = "done"
        /\ IF layout.empty_cols_ok THEN result = None ELSE result.kind = "File"

(* --------------------------- claims on columns ------------------------- *)
ColumnAnswered == subject.kind = "column" /\ Len(answers) = 1

\* some value other than '' stands at two positions of the column
Repeated(col) ==
    \E i \in DOMAIN col, j \in DOMAIN col : i < j /\ col[i] = col[j] /\ col[i] # EmptyStr

(* C22: Unique ignores blanks: the check of a column fails if and only if  *)
(* some non-empty value occurs more than once, and then the Column node    *)
(* holds the single failure "values must be unique".                       *)
C22_UniqueIgnoresBlanks ==
    ColumnAnswered =>
        /\ (answers[1] # None) <=> Repeated(inputs[1])
        /\ answers[1] # None =>
              /\ answers[1].kind = "Column"
              /\ answers[1].errors =
                    <<UrNotMyDataError("Unique", <<"values must be unique">>, <<>>)>>

C22_Witness ==
    /\ ColumnAnswered
    /\ inputs[1] = <<EmptyStr, EmptyStr, Str_a>>
    /\ answers[1] = None

\* the stream indexes of the rows taken so far whose check returned a Row node
Reported ==
    (IF HeaderFailed THEN {this.skip_rows} ELSE {}) \cup FailedData

\* the j-th of them in ascending order
NthReported(j) ==
    CHOOSE i \in Reported : Cardinality({x \in Reported : x < i}) = j - 1

\* the Cell node names column c of the layout on row i, both 1-based
CellLabelled(cell, i) ==
    \E c \in DOMAIN layout.layout :
        cell.msg = <<ToString(i + 1), ",", ToString(c)>>
                       \o <<" (">> \o layout.layout[c].name \o <<")">>

(* C23: every Row node of the error list is labelled with the stream index *)
(* of its row plus one, and every Cell node under it carries that row      *)
(* number, its column number counted from one and the name of its field,   *)
(* for every row index, index 0 included.                                  *)
C23_Coordinates ==
    (Started /\ pc # "raised") =>
        LET rows == SelectSeq(e, LAMBDA n : n.kind = "Row")
        IN  /\ Len(rows) = Cardinality(Reported)
            /\ \A j \in DOMAIN rows :
                  /\ rows[j].msg = <<ToString(NthReported(j) + 1)>>
                  /\ \A c \in DOMAIN rows[j].errors :
                        rows[j].errors[c].kind = "Cell" =>
                            CellLabelled(rows[j].errors[c], NthReported(j))

\* the place of a kind of node among the children of a File error
Rank(kind) == CASE kind = "Row" -> 1 [] kind = "MaxError" -> 2 [] kind = "Column" -> 3

\* the node the check of the row at stream index i returned
NodeOf(i) ==
    IF IsHeader(i) THEN HeaderResult ELSE LayoutCheck(layout, AsChecked(i), "row", i)

\* the position of the field of a Column node in the layout
FieldPosition(node) ==
    CHOOSE c \in DOMAIN layout.definition :
        node.msg = <<ToString(c), " (">> \o layout.definition[c].name \o <<")">>

DataChecked == IF rix >= FirstData THEN FirstData..rix ELSE {}

(* C25: when the finalize pass runs, each cached column holds, in stream   *)
(* order, exactly one value for every data row that was checked, the rows  *)
(* that failed and the row that triggered the cutoff included.             *)
C25_CacheCoversCheckedRows ==
    (pc = "finalize" /\ PreflightPasses) =>
        \A i \in DOMAIN column_cache :
            LET v == column_cache[i].v
            IN  /\ Len(v) = Cardinality(DataChecked)
                /\ \A j \in DOMAIN v : v[j] \in Range(AsChecked(FirstData + j - 1))

\* the position, counted from one, of the field named k in the field map
PositionOf(k) == CHOOSE p \in DOMAIN layout.layout : layout.layout[p].name = k

(* C26: the j-th value cached for a field with a Column rule is the value  *)
(* the j-th data row holds for that field, at the position the field has   *)
(* in the field map the rows are checked against, also after the header    *)
(* has put anonymous columns before it.                                    *)
C26_CacheFollowsField ==
    Started =>
        \A i \in DOMAIN column_cache :
            LET c == column_cache[i]
            IN  \A j \in DOMAIN c.v :
                    /\ \E p \in DOMAIN layout.layout : layout.layout[p].name = c.k
                    /\ PositionOf(c.k) <= Len(AsChecked(FirstData + j - 1))
                    /\ c.v[j] = AsChecked(FirstData + j - 1)[PositionOf(c.k)]

(* C27: whatever rows the source delivers, no exception escapes check: it  *)
(* ends with success or with a File error, and a data row too short for    *)
(* the position of a cached field is reported by its row-length failure.   *)
C27_NoExceptionEscapes ==
    /\ pc # "raised"
    /\ exc = "none"
    /\ pc = "done" => (result = None \/ result.kind = "File")
    /\ (pc = "done" /\ PreflightPasses) =>
          \A i \in DataChecked :
              Len(AsChecked(i)) < field_count(layout) =>
                  \E n \in DOMAIN result.errors :
                      /\ result.errors[n].kind = "Row"
                      /\ HasKind(result.errors[n].errors, "RowLengthGTE")

(* ----------------------- claims on construction ------------------------ *)
Built == subject.kind = "lists" /\ Len(answers) = Len(inputs)

(* C28: constructing fields from a list L leaves L as it was, no two       *)
(* fields and no field and the caller share a rules list, and each field   *)
(* holds the rules that were in L, the not-null rule unless it is          *)
(* nullable, and the rules of its own type, and no other rule.             *)
C28_ConstructionFrame ==
    Built =>
        /\ subject.heap[subject.L] = subject.orig
        /\ \A k \in DOMAIN answers :
              /\ answers[k].rules # subject.L
              /\ \A j \in DOMAIN answers : j # k => answers[j].rules # answers[k].rules
              /\ subject.heap[answers[k].rules] =
                    NewField(inputs[k].cls, inputs[k].nullable, subject.orig, TRUE).rules

(* ------------------------ claims on comparisons ------------------------ *)
\* a value the rules of Integer(2) accept
IntegerValue(x) == IsInt(x) /\ Len(x) <= 2 /\ (x = <<"0">> \/ Head(x) # "0")

\* the integer the value stands for
IntOf(x) == FloatValue(x)

(* C29: GreaterThanColumn compares the two cells as numbers: a row of two  *)
(* integer values for the fields a (with GreaterThanColumn('b')) and b     *)
(* passes exactly when the value of a is greater than the value of b, and  *)
(* a row that fails has one Cell node, that of field a, with the single    *)
(* GreaterThanColumn failure.                                              *)
C29_NumericComparison ==
    (RowAnswered(1) /\ subject.lay.definition = Compare /\ Len(inputs[1]) = 2
        /\ IntegerValue(inputs[1][1]) /\ IntegerValue(inputs[1][2])) =>
            /\ (answers[1] = None) <=> (IntOf(inputs[1][1]) > IntOf(inputs[1][2]))
            /\ answers[1] # None =>
                  answers[1] =
                      RowError(-1, <<CellError(0,
                          <<exception_msg(Rule("GreaterThanColumn", Str_b))>>, -1, Str_a)>>)

\* the index of the expected name the i-th token extends: of the names it
\* matches, the longest
Extended(i) ==
    CHOOSE j \in DOMAIN Names :
        /\ Matches(inputs[1][i], Names[j])
        /\ \A l \in DOMAIN Names :
              Matches(inputs[1][i], Names[l]) => Len(Names[l]) <= Len(Names[j])

(* C30: in startswith and contains mode each token is matched to the one   *)
(* expected name it extends, also when an expected name is a prefix or a   *)
(* substring of another: for a header whose tokens all match, NoDuplicate  *)
(* fails exactly when two tokens extend the same name and ColumnOrder      *)
(* exactly when the names extended are out of order, so with the names a,  *)
(* ab the header a1, ab1 passes both.                                      *)
C30_OneNamePerToken ==
    (HeaderAnswered /\ subject.lay.header_mode # "exact" /\ AllMatch) =>
        /\ Failed("NoDuplicate") <=>
              (\E i, j \in DOMAIN inputs[1] : i < j /\ Extended(i) = Extended(j))
        /\ Failed("ColumnOrder") <=>
              (\E i \in 1..(Len(inputs[1]) - 1) : Extended(i) > Extended(i + 1))

================================================================================
